---- MODULE Spec2Model ----
(***************************************************************************)
(* LifeRPG ("New Game Plus"): the cycle engine, the progression engine and *)
(* the completion transaction, with the adjustment operations that touch   *)
(* the same records.                                                       *)
(*                                                                         *)
(* Time is counted in whole hours since 2024-01-01T00:00 (a Monday).       *)
(* Cycle boundaries always fall on a whole hour, so comparing the hour of  *)
(* datetime.now() with them is exact.                                      *)
(***************************************************************************)
EXTENDS Integers, Sequences, FiniteSets, TLC

(***************************************************************************)
(* Bounds of the model                                                     *)
(***************************************************************************)
\* number of completion records the store may hold
MaxCompletions == 2
\* number of days the clock may advance from StartTime
MaxDays == 5
\* number of AdjustmentLoop operations in a session
MaxAdjustments == 2
\* the process stops inside an operation at most this many times
MaxCrashes == 1
\* number of times one skill's cycle is restarted by _update_all_cycles
MaxRolls == 2
\* highest level of the leveling table
MaxLevel == 6

(***************************************************************************)
(* Program constants                                                       *)
(***************************************************************************)
READY_THRESHOLD == 8
HoursPerDay == 24
DaysPerWeek == 7

\* None, for a mission id / for a skill id
NoMission == 0
NoSkill == "none"

SkillIds == {"S1", "S2"}
CycleTypes == {"daily", "weekly", "monthly", "custom"}

\* 2024-03-06T10:00, a Wednesday
StartTime == 65 * HoursPerDay + 10
\* the clock advances by 5 days at a time
TickSteps == {5 * HoursPerDay}

(***************************************************************************)
(* Calendar                                                                *)
(***************************************************************************)
\* day number of the first of each month, 2024-01 .. 2025-02
MonthStartDays == <<0, 31, 60, 91, 121, 152, 182, 213, 244, 274, 305, 335, 366, 397>>

DayOf(t) == t \div HoursPerDay
HourOf(t) == t % HoursPerDay
\* datetime.weekday(): Monday is 0
weekday(t) == DayOf(t) % DaysPerWeek

Max(S) == CHOOSE x \in S : \A y \in S : y <= x
Min(S) == CHOOSE x \in S : \A y \in S : x <= y

\* dt.replace(day=1), as a day number
FirstOfMonth(day) ==
    Max({MonthStartDays[i] : i \in {j \in 1..Len(MonthStartDays) : MonthStartDays[j] <= day}})
\* the first of the following month (December rolls into the next year)
FirstOfNextMonth(day) ==
    Min({MonthStartDays[i] : i \in {j \in 1..Len(MonthStartDays) : MonthStartDays[j] > day}})

\* a variant whose week starts on the day of current_time
calculate_cycle_boundaries_from_today(cycle_type, current_time, day_starts_at) ==
    LET aligned_time == DayOf(current_time) * HoursPerDay + day_starts_at
    IN  <<aligned_time, aligned_time + DaysPerWeek * HoursPerDay>>

\* CycleService.calculate_cycle_boundaries: <<cycle_start, cycle_end>>
calculate_cycle_boundaries(cycle_type, current_time, day_starts_at) ==
    LET aligned_time == DayOf(current_time) * HoursPerDay + day_starts_at
        week_start == aligned_time - weekday(aligned_time) * HoursPerDay
        month_start == FirstOfMonth(DayOf(aligned_time)) * HoursPerDay + day_starts_at
        month_end == FirstOfNextMonth(DayOf(month_start)) * HoursPerDay + day_starts_at
    IN  CASE cycle_type = "daily" -> <<aligned_time, aligned_time + HoursPerDay>>
          [] cycle_type = "weekly" -> <<week_start, week_start + DaysPerWeek * HoursPerDay>>
          [] cycle_type = "monthly" -> <<month_start, month_end>>
          [] OTHER -> <<week_start, week_start + DaysPerWeek * HoursPerDay>>

\* time_utils.align_to_day_start
align_to_day_start(dt, hour) ==
    LET aligned == DayOf(dt) * HoursPerDay + hour
    IN  IF HourOf(dt) < hour THEN aligned - HoursPerDay ELSE aligned

\* time_utils.get_cycle_boundaries: <<start, end>>
get_cycle_boundaries(cycle_type, reference_time, day_starts_at) ==
    LET aligned == align_to_day_start(reference_time, day_starts_at)
        week_start == aligned - weekday(aligned) * HoursPerDay
        month_start == FirstOfMonth(DayOf(aligned)) * HoursPerDay + day_starts_at
        month_end == FirstOfNextMonth(DayOf(month_start)) * HoursPerDay + day_starts_at
    IN  CASE cycle_type = "daily" -> <<aligned, aligned + HoursPerDay>>
          [] cycle_type = "weekly" -> <<week_start, week_start + DaysPerWeek * HoursPerDay>>
          [] cycle_type = "monthly" -> <<month_start, month_end>>
          [] OTHER -> <<week_start, week_start + DaysPerWeek * HoursPerDay>>

(***************************************************************************)
(* Leveling                                                                *)
(***************************************************************************)
\* ceil(120 * level^1.5): the least n with n^2 >= 120^2 * level^3
LevelCurve(level) ==
    LET sq == 14400 * level * level * level
    IN  CHOOSE n \in 0..(120 * level * level) :
            n * n >= sq /\ (n = 0 \/ (n - 1) * (n - 1) < sq)

LevelCurveTable == [level \in 1..MaxLevel |-> LevelCurve(level)]

\* Player.xp_for_next_level
player_xp_for_next_level(player) == LevelCurveTable[player.level]

\* a variant that takes no account of Focus mode
skill_xp_for_next_level_ignores_focus(skill) == LevelCurveTable[skill.level]

\* Skill.xp_for_next_level
skill_xp_for_next_level(skill) ==
    IF skill.is_focus THEN LevelCurveTable[skill.level] * 2
                      ELSE LevelCurveTable[skill.level]

\* a variant that never levels up
player_add_xp_no_level_up(player, amount) ==
    <<[player EXCEPT !.xp = @ + amount], FALSE>>

\* Player.add_xp: <<player, leveled_up>>
player_add_xp(player, amount) ==
    LET xp == player.xp + amount
        xp_needed == player_xp_for_next_level(player)
    IN  IF xp >= xp_needed
        THEN <<[player EXCEPT !.level = @ + 1, !.xp = xp - xp_needed], TRUE>>
        ELSE <<[player EXCEPT !.xp = xp], FALSE>>

\* Skill.add_xp: <<skill, leveled_up>>
skill_add_xp(skill, amount) ==
    LET xp == skill.xp + amount
        xp_needed == skill_xp_for_next_level(skill)
    IN  IF xp >= xp_needed
        THEN <<[skill EXCEPT !.level = @ + 1, !.xp = xp - xp_needed], TRUE>>
        ELSE <<[skill EXCEPT !.xp = xp], FALSE>>

\* Player.add_coins
add_coins(player, amount) == [player EXCEPT !.coins = @ + amount]

(***************************************************************************)
(* Mission reward formulas                                                 *)
(***************************************************************************)
base_player_xp(mission) == 4 * mission.difficulty
base_skill_xp(mission) == 8 * mission.difficulty
coins_reward(mission) == 2 * mission.difficulty
\* a variant that gives the base amount as the bonus
cycle_player_xp_base_only(mission) == 4 * mission.difficulty
cycle_player_xp(mission) == 40 * mission.difficulty
cycle_skill_xp(mission) == 80 * mission.difficulty

(***************************************************************************)
(* State                                                                   *)
(***************************************************************************)
VARIABLES
    player,       \* the player row (GameSession.player is saved whenever it changes)
    skills,       \* skills table: skill id -> row
    missions,     \* missions table: mission id -> row
    completions,  \* completions table, in insertion order
    now,          \* datetime.now(), in hours
    credits,      \* history: every credit decision taken by complete_mission
    last,         \* history: what the last operation did
    adjustments,  \* history: the number of AdjustmentLoop operations so far
    crashes,      \* history: the number of times the process stopped inside an operation
    probe         \* the input and the result of a function applied on its own

vars == <<player, skills, missions, completions, now, credits, last, adjustments, crashes, probe>>

\* the custom template the player has saved: READY_THRESHOLD mission definitions
CustomTemplate ==
    [i \in 1..READY_THRESHOLD |->
        [difficulty |-> IF i = 1 THEN 5 ELSE IF i = 2 THEN 2 ELSE 1, energy |-> 1]]

\* uuid4() for missions: template missions take the ids 1..Len(CustomTemplate),
\* missions created one by one take the ids after them
TemplateMissionIds == 1..Len(CustomTemplate)
SingleMissionIds == {Len(CustomTemplate) + 1}
MissionIds == TemplateMissionIds \cup SingleMissionIds

\* the inputs of the operations
TemplateSkillLists == {<<"S1", "S2">>}
SkillIdLists == {<<"S1">>, <<"S2", "S1">>}
Difficulties == {3}
Energies == {1}
PlayedMissions == {1, 2, Len(CustomTemplate) + 1}

NoLast == [op |-> "init"]
NoProbe == [fn |-> "none"]

\* a variant that does not look at the energy
MissionValid_without_energy(skill_ids, difficulty, energy) ==
    /\ 1 <= difficulty /\ difficulty <= 5
    /\ Len(skill_ids) <= 2

\* Mission.__post_init__
MissionValid(skill_ids, difficulty, energy) ==
    /\ 1 <= difficulty /\ difficulty <= 5
    /\ 1 <= energy /\ energy <= 5
    /\ Len(skill_ids) <= 2

Range(seq) == {seq[i] : i \in 1..Len(seq)}

\* ActionLoop._get_missions_for_skill / AdjustmentLoop._get_missions_for_skill
\* over a missions table ms: the ids of the active missions of the skill
get_missions_for_skill(ms, skill_id) ==
    {m \in DOMAIN ms : ~ms[m].is_archived /\ skill_id \in Range(ms[m].skill_ids)}

\* a variant that takes a skill with any mission for ready
is_ready_with_any_mission(skill) == skill.missions_count >= 1

\* Skill.is_ready
is_ready(skill) == skill.missions_count >= READY_THRESHOLD

\* a variant that leaves the cycle start out of the id
create_cycle_id_skill_only(skill_id, cycle_start) == <<skill_id, 0>>

\* CycleService.create_cycle_id
create_cycle_id(skill_id, cycle_start) == <<skill_id, cycle_start>>
\* the cycle id of a completion whose mission has no first skill in the store
NoSkillCycleId == <<"no_skill", 0>>

\* a variant that restarts the cycle on every call
should_start_new_cycle_always(skill, current_time) == TRUE

\* CycleService.should_start_new_cycle (a stored skill always has a cycle_end:
\* it is saved only after start_new_cycle)
should_start_new_cycle(skill, current_time) == current_time >= skill.cycle_end

\* CycleService.select_target_mission: the outcomes random.choice can have
select_target_mission(mission_ids) ==
    IF mission_ids = {} THEN {NoMission} ELSE mission_ids

\* the targets start_new_cycle can leave on a skill given its missions
TargetChoices(mission_ids) ==
    IF is_ready([missions_count |-> Cardinality(mission_ids)])
    THEN select_target_mission(mission_ids)
    ELSE {NoMission}

\* a variant that leaves has_hit_target_this_cycle as it is
start_new_cycle_keeps_hit(skill, mission_ids, current_time, day_starts_at, chosen) ==
    LET b == calculate_cycle_boundaries(skill.cycle_type, current_time, day_starts_at)
        counted == [skill EXCEPT !.cycle_start = b[1],
                                 !.cycle_end = b[2],
                                 !.missions_count = Cardinality(mission_ids)]
    IN  IF is_ready(counted)
        THEN [counted EXCEPT !.target_mission_id = chosen]
        ELSE [counted EXCEPT !.target_mission_id = NoMission]

\* CycleService.start_new_cycle, with the outcome of the random choice given
start_new_cycle(skill, mission_ids, current_time, day_starts_at, chosen) ==
    LET b == calculate_cycle_boundaries(skill.cycle_type, current_time, day_starts_at)
        counted == [skill EXCEPT !.cycle_start = b[1],
                                 !.cycle_end = b[2],
                                 !.has_hit_target_this_cycle = FALSE,
                                 !.missions_count = Cardinality(mission_ids)]
    IN  IF is_ready(counted)
        THEN [counted EXCEPT !.target_mission_id = chosen]
        ELSE [counted EXCEPT !.target_mission_id = NoMission]

\* CycleService.is_target_hit
is_target_hit(skill, mission_id) ==
    skill.target_mission_id = mission_id /\ ~skill.has_hit_target_this_cycle

\* CycleService.mark_target_hit
mark_target_hit(skill) == [skill EXCEPT !.has_hit_target_this_cycle = TRUE]

\* Skill(id=..., **skill_data): the dataclass defaults
NewSkill(cycle_type, is_focus) ==
    [level |-> 1, xp |-> 0, is_archived |-> FALSE, is_focus |-> is_focus,
     cycle_type |-> cycle_type, cycle_start |-> 0, cycle_end |-> 0,
     target_mission_id |-> NoMission, has_hit_target_this_cycle |-> FALSE,
     missions_count |-> 0]

\* Player(id=..., display_name=..., class_name=...): the dataclass defaults
NewPlayer == [level |-> 1, xp |-> 0, coins |-> 0, day_starts_at |-> 0]

(***************************************************************************)
(* Construction: GameSession.__init__ on an empty database                 *)
(***************************************************************************)
Init ==
    /\ player = NewPlayer
    /\ skills = <<>>
    /\ missions = <<>>
    /\ completions = <<>>
    /\ now = StartTime
    /\ credits = <<>>
    /\ last = NoLast
    /\ adjustments = 0
    /\ crashes = 0
    /\ probe = NoProbe

(***************************************************************************)
(* The clock                                                               *)
(***************************************************************************)
Tick(d) ==
    /\ now + d <= StartTime + MaxDays * HoursPerDay
    /\ now' = now + d
    /\ last' = [op |-> "tick"]
    /\ UNCHANGED <<player, skills, missions, completions, credits, adjustments, crashes, probe>>

(***************************************************************************)
(* GameSession._handle_create_skill                                        *)
(***************************************************************************)
\* a variant that saves the new skill without starting its cycle
create_skill_without_cycle(cycle_type, is_focus, current_time, day_starts_at) ==
    NewSkill(cycle_type, is_focus)

\* the skill _handle_create_skill saves: a new Skill after start_new_cycle with
\* an empty mission list
create_skill(cycle_type, is_focus, current_time, day_starts_at) ==
    start_new_cycle(NewSkill(cycle_type, is_focus), {}, current_time, day_starts_at,
                    NoMission)

CreateSkill(skill_id, cycle_type, is_focus) ==
    /\ skill_id \notin DOMAIN skills
    /\ skills' = (skill_id :> create_skill(cycle_type, is_focus, now,
                                           player.day_starts_at)) @@ skills
    /\ last' = [op |-> "create_skill", skill_id |-> skill_id]
    /\ UNCHANGED <<player, missions, completions, now, credits, adjustments, crashes, probe>>

(***************************************************************************)
(* ActionLoop.create_mission                                               *)
(***************************************************************************)
\* the loop over skill_ids that refreshes missions_count, on tables <<ms, sk>>
RECURSIVE update_counts(_, _, _)
update_counts(ms, sk, skill_ids) ==
    IF skill_ids = <<>> THEN sk
    ELSE LET skill_id == Head(skill_ids)
             sk1 == IF skill_id \in DOMAIN sk
                    THEN [sk EXCEPT ![skill_id].missions_count =
                              Cardinality(get_missions_for_skill(ms, skill_id))]
                    ELSE sk
         IN  update_counts(ms, sk1, Tail(skill_ids))

\* the tables after save_mission of a new mission and the count updates
saved_mission(ms1, sk, skill_ids) == <<ms1, update_counts(ms1, sk, skill_ids), FALSE>>

\* create_mission on tables <<ms, sk>>: the tables after it, and whether it raised
\* (Mission(...) raises ValueError in __post_init__, before save_mission)
create_mission(ms, sk, mission_id, skill_ids, difficulty, energy) ==
    IF ~MissionValid(skill_ids, difficulty, energy) THEN <<ms, sk, TRUE>>
    ELSE saved_mission((mission_id :> [skill_ids |-> skill_ids, difficulty |-> difficulty,
                                       energy |-> energy, is_archived |-> FALSE]) @@ ms,
                       sk, skill_ids)

\* the tables and the history after a call on a mission with outcome r, the
\* tables after it and whether it raised ValueError
MissionCall(r, op, mission_id) ==
    /\ missions' = r[1]
    /\ skills' = r[2]
    /\ last' = IF r[3]
               THEN [op |-> op, mission_id |-> mission_id, raised |-> TRUE,
                     missions_before |-> missions, skills_before |-> skills]
               ELSE [op |-> op, mission_id |-> mission_id]

CreateMission(skill_ids, difficulty, energy) ==
    /\ SingleMissionIds \ DOMAIN missions # {}
    /\ MissionCall(create_mission(missions, skills, Min(SingleMissionIds \ DOMAIN missions),
                                  skill_ids, difficulty, energy),
                   "create_mission", Min(SingleMissionIds \ DOMAIN missions))
    /\ UNCHANGED <<player, completions, now, credits, adjustments, crashes, probe>>

(***************************************************************************)
(* TemplatesService.instantiate_template                                   *)
(***************************************************************************)
RECURSIVE instantiate(_, _, _, _, _)
instantiate(ms, sk, template, i, skill_ids) ==
    IF i > Len(template) THEN <<ms, sk>>
    ELSE LET r == create_mission(ms, sk, i, skill_ids, template[i].difficulty,
                                 template[i].energy)
         IN  instantiate(r[1], r[2], template, i + 1, skill_ids)

InstantiateTemplate(skill_ids) ==
    /\ TemplateMissionIds \cap DOMAIN missions = {}
    /\ LET r == instantiate(missions, skills, CustomTemplate, 1, skill_ids)
       IN  /\ missions' = r[1]
           /\ skills' = r[2]
           /\ last' = [op |-> "instantiate_template"]
    /\ UNCHANGED <<player, completions, now, credits, adjustments, crashes, probe>>

(***************************************************************************)
(* ActionLoop.complete_mission                                             *)
(***************************************************************************)
\* StorageService.get_completions_for_mission_in_cycle, over a completions table
get_completions_for_mission_in_cycle(cs, mission_id, cycle_id) ==
    {i \in 1..Len(cs) : cs[i].mission_id = mission_id /\ cs[i].cycle_id = cycle_id}

\* a variant that leaves the base player XP out of the award
calculate_base_awards_no_player_xp(mission) ==
    [base_player_xp |-> 0,
     base_skill_xp_map |-> [s \in Range(mission.skill_ids) |-> base_skill_xp(mission)],
     coins |-> coins_reward(mission),
     cycle_xp_applied_skill_id |-> NoSkill]

\* ProgressionService.calculate_base_awards
calculate_base_awards(mission) ==
    [base_player_xp |-> base_player_xp(mission),
     base_skill_xp_map |-> [s \in Range(mission.skill_ids) |-> base_skill_xp(mission)],
     coins |-> coins_reward(mission),
     cycle_xp_applied_skill_id |-> NoSkill]

\* ProgressionService.calculate_cycle_bonus: <<player_cycle_xp, skill_cycle_xp>>
calculate_cycle_bonus(mission, skill) ==
    <<cycle_player_xp(mission), cycle_skill_xp(mission)>>

\* the skills _update_all_cycles restarts at current_time
StaleSkills(sk, current_time) ==
    {s \in DOMAIN sk : ~sk[s].is_archived /\ should_start_new_cycle(sk[s], current_time)}

\* the outcomes of the random target choices of one _update_all_cycles call
RollChoices(ms, sk, current_time) ==
    {f \in [StaleSkills(sk, current_time) -> MissionIds \cup {NoMission}] :
        \A s \in DOMAIN f : f[s] \in TargetChoices(get_missions_for_skill(ms, s))}

\* a variant that leaves every cycle as it is
update_all_cycles_skipped(ms, sk, current_time, day_starts_at, chosen) == sk

\* ActionLoop._update_all_cycles: the skills table after it
update_all_cycles(ms, sk, current_time, day_starts_at, chosen) ==
    [s \in DOMAIN sk |->
        IF s \in StaleSkills(sk, current_time)
        THEN start_new_cycle(sk[s], get_missions_for_skill(ms, s), current_time,
                             day_starts_at, chosen[s])
        ELSE sk[s]]

\* one pass of the loop over mission.skill_ids (action.py lines 102-147).
\* acc: sk the skills table, pl the player object, award, plu player_leveled_up,
\* slu skill_level_ups, log the credit decisions, writes the tables after each commit
process_skill(acc, cs, mission_id, mission, skill_id) ==
    IF skill_id \notin DOMAIN acc.sk THEN acc
    ELSE
    LET skill == acc.sk[skill_id]
        cycle_id == create_cycle_id(skill_id, skill.cycle_start)
        existing_completions == get_completions_for_mission_in_cycle(cs, mission_id, cycle_id)
        entry == [mission_id |-> mission_id, skill_id |-> skill_id,
                  cycle_start |-> skill.cycle_start, cycle_end |-> skill.cycle_end]
    IN  IF existing_completions # {}
        THEN [acc EXCEPT !.log = Append(@, entry @@ [credited |-> FALSE, bonus |-> FALSE])]
        ELSE
        LET based == skill_add_xp(skill, acc.award.base_skill_xp_map[skill_id])
            hit == is_target_hit(based[1], mission_id)
            bonus == calculate_cycle_bonus(mission, based[1])
            pl_bonus == player_add_xp(acc.pl, bonus[1])
            sk_bonus == skill_add_xp(based[1], bonus[2])
            skill1 == IF hit THEN mark_target_hit(sk_bonus[1]) ELSE based[1]
            sk1 == [acc.sk EXCEPT ![skill_id] = skill1]
        IN  [sk |-> sk1,
             pl |-> IF hit THEN pl_bonus[1] ELSE acc.pl,
             award |-> IF hit THEN [acc.award EXCEPT !.cycle_xp_applied_skill_id = skill_id]
                              ELSE acc.award,
             plu |-> IF hit THEN pl_bonus[2] \/ acc.plu ELSE acc.plu,
             slu |-> IF based[2] THEN Append(acc.slu, skill_id) ELSE acc.slu,
             bonused |-> IF hit THEN Append(acc.bonused, skill_id) ELSE acc.bonused,
             log |-> Append(acc.log, entry @@ [credited |-> TRUE, bonus |-> hit]),
             writes |-> Append(acc.writes, [skills |-> sk1, player |-> acc.saved_player,
                                            completions |-> cs]),
             saved_player |-> acc.saved_player]

\* a variant of the loop that stops at the first skill id the store does not hold
RECURSIVE process_skills_until_absent(_, _, _, _, _)
process_skills_until_absent(acc, cs, mission_id, mission, skill_ids) ==
    IF skill_ids = <<>> \/ Head(skill_ids) \notin DOMAIN acc.sk THEN acc
    ELSE process_skills_until_absent(
             process_skill(acc, cs, mission_id, mission, Head(skill_ids)),
             cs, mission_id, mission, Tail(skill_ids))

RECURSIVE process_skills(_, _, _, _, _)
process_skills(acc, cs, mission_id, mission, skill_ids) ==
    IF skill_ids = <<>> THEN acc
    ELSE process_skills(process_skill(acc, cs, mission_id, mission, Head(skill_ids)),
                        cs, mission_id, mission, Tail(skill_ids))

\* complete_mission from the player save on (action.py lines 149-181), acc being
\* the outcome of the loop over the mission's skills: the tables after every
\* commit (writes), the last of which is the state on return, with the returned
\* dict and the credit decisions
finish_mission(acc, cs, mission_id, mission, current_time, rolled, stale) ==
    LET based == player_add_xp(acc.pl, acc.award.base_player_xp)
        pl1 == add_coins(based[1], acc.award.coins)
        cycle_id == IF mission.skill_ids # <<>> /\ mission.skill_ids[1] \in DOMAIN acc.sk
                    THEN create_cycle_id(mission.skill_ids[1],
                                         acc.sk[mission.skill_ids[1]].cycle_start)
                    ELSE NoSkillCycleId
        completion == [mission_id |-> mission_id, completed_at |-> current_time,
                       award |-> acc.award, cycle_id |-> cycle_id]
    IN  [start |-> [skills |-> rolled, player |-> acc.saved_player, completions |-> cs],
         writes |-> acc.writes
                    \o <<[skills |-> acc.sk, player |-> pl1, completions |-> cs]>>
                    \o <<[skills |-> acc.sk, player |-> pl1,
                          completions |-> Append(cs, completion)]>>,
         log |-> acc.log,
         bonused |-> acc.bonused,
         rolled |-> stale,
         result |-> [completion |-> completion,
                     player_leveled_up |-> based[2] \/ acc.plu,
                     skill_level_ups |-> acc.slu,
                     cycle_bonus_applied |-> acc.award.cycle_xp_applied_skill_id # NoSkill,
                     xp_earned |-> acc.award.base_player_xp,
                     coins_earned |-> acc.award.coins]]

\* the loop's variables before its first pass, on the skills table rolled
loop_start(rolled, pl, mission) ==
    [sk |-> rolled, pl |-> pl, award |-> calculate_base_awards(mission), plu |-> FALSE,
     slu |-> <<>>, bonused |-> <<>>, log |-> <<>>, writes |-> <<>>, saved_player |-> pl]

\* complete_mission after _update_all_cycles has left the skills table rolled
complete_rolled(ms, rolled, cs, pl, mission_id, current_time, stale) ==
    finish_mission(process_skills(loop_start(rolled, pl, ms[mission_id]), cs, mission_id,
                                  ms[mission_id], ms[mission_id].skill_ids),
                   cs, mission_id, ms[mission_id], current_time, rolled, stale)

\* complete_mission on the tables <<ms, sk, cs>> with the session's player pl at
\* current_time; chosen: the targets drawn for the skills that roll
complete_mission(ms, sk, cs, pl, mission_id, current_time, chosen) ==
    complete_rolled(ms, update_all_cycles(ms, sk, current_time, pl.day_starts_at, chosen),
                    cs, pl, mission_id, current_time, StaleSkills(sk, current_time))

\* the store and the history after a complete_mission call with outcome c
Returned(c, mission_id) ==
    /\ skills' = c.writes[Len(c.writes)].skills
    /\ player' = c.writes[Len(c.writes)].player
    /\ completions' = c.writes[Len(c.writes)].completions
    /\ credits' = credits \o c.log
    /\ last' = [op |-> "complete_mission", mission_id |-> mission_id,
                player_before |-> player, skills_before |-> skills,
                completions_before |-> completions,
                rolled |-> c.rolled, log |-> c.log, bonused |-> c.bonused,
                result |-> c.result]

CompleteMission(mission_id) ==
    /\ mission_id \in DOMAIN missions
    /\ Len(completions) < MaxCompletions
    /\ \E chosen \in RollChoices(missions, skills, now) :
         Returned(complete_mission(missions, skills, completions, player, mission_id,
                                    now, chosen), mission_id)
    /\ UNCHANGED <<missions, now, adjustments, crashes, probe>>

\* a variant that rolls the stale cycles before it looks the mission up
missing_mission_rolls_first(ms, sk, cs, pl, mission_id, current_time, chosen) ==
    [skills |-> update_all_cycles(ms, sk, current_time, pl.day_starts_at, chosen),
     player |-> pl, completions |-> cs]

\* complete_mission for a mission_id that get_mission does not find: the store
\* when ValueError is raised (action.py lines 86-88, before _update_all_cycles)
missing_mission(ms, sk, cs, pl, mission_id, current_time, chosen) ==
    [skills |-> sk, player |-> pl, completions |-> cs]

\* the store and the history after a call that raised with the store as in end
Raised(end, op, mission_id) ==
    /\ skills' = end.skills
    /\ player' = end.player
    /\ completions' = end.completions
    /\ last' = [op |-> op, mission_id |-> mission_id, raised |-> TRUE,
                player_before |-> player, skills_before |-> skills,
                missions_before |-> missions, completions_before |-> completions]

CompleteMissingMission(mission_id) ==
    /\ mission_id \notin DOMAIN missions
    /\ \E chosen \in RollChoices(missions, skills, now) :
          Raised(missing_mission(missions, skills, completions, player, mission_id,
                                 now, chosen), "complete_mission_error", mission_id)
    /\ UNCHANGED <<missions, now, credits, adjustments, crashes, probe>>

\* the credit decisions of log whose save_skill is among the first k commits
RECURSIVE DurableLog(_, _)
DurableLog(log, k) ==
    IF log = <<>> \/ k = 0 THEN <<>>
    ELSE IF Head(log).credited THEN <<Head(log)>> \o DurableLog(Tail(log), k - 1)
    ELSE DurableLog(Tail(log), k)

\* the store and the history when the process stops after the k-th commit of a
\* complete_mission call with outcome c (every save_* commits on its own); the
\* next session loads the player from the store
Crashed(c, mission_id, k) ==
    /\ k < Len(c.writes)
    /\ skills' = c.writes[k].skills
    /\ player' = c.writes[k].player
    /\ completions' = c.writes[k].completions
    /\ credits' = credits \o DurableLog(c.log, k)
    /\ last' = [op |-> "crash", mission_id |-> mission_id, commits |-> k,
                before |-> c.start, after |-> c.writes[Len(c.writes)]]

CompleteMissionCrash(mission_id, k) ==
    /\ mission_id \in DOMAIN missions
    /\ Len(completions) < MaxCompletions
    /\ crashes < MaxCrashes
    /\ \E chosen \in RollChoices(missions, skills, now) :
         Crashed(complete_mission(missions, skills, completions, player, mission_id,
                                  now, chosen), mission_id, k)
    /\ crashes' = crashes + 1
    /\ UNCHANGED <<missions, now, adjustments, probe>>

(***************************************************************************)
(* AdjustmentLoop                                                          *)
(***************************************************************************)
\* change_skill_cadence (GameSession passes the player's day_starts_at)
ChangeSkillCadence(skill_id, new_cadence) ==
    /\ skill_id \in DOMAIN skills
    /\ adjustments < MaxAdjustments
    /\ adjustments' = adjustments + 1
    /\ LET mission_ids == get_missions_for_skill(missions, skill_id)
           skill == [skills[skill_id] EXCEPT !.cycle_type = new_cadence]
       IN  \E chosen \in TargetChoices(mission_ids) :
               skills' = [skills EXCEPT ![skill_id] =
                             start_new_cycle(skill, mission_ids, now,
                                             player.day_starts_at, chosen)]
    /\ last' = [op |-> "change_skill_cadence", skill_id |-> skill_id]
    /\ UNCHANGED <<player, missions, completions, now, credits, crashes, probe>>

\* toggle_focus_mode
ToggleFocusMode(skill_id) ==
    /\ skill_id \in DOMAIN skills
    /\ adjustments < MaxAdjustments
    /\ adjustments' = adjustments + 1
    /\ skills' = [skills EXCEPT ![skill_id].is_focus = ~@]
    /\ last' = [op |-> "toggle_focus_mode", skill_id |-> skill_id]
    /\ UNCHANGED <<player, missions, completions, now, credits, crashes, probe>>

\* the loop of archive_mission over mission.skill_ids: the store still holds the
\* mission as it was, the count leaves it (and archived missions) out
RECURSIVE archive_counts(_, _, _, _)
archive_counts(ms, sk, mission_id, skill_ids) ==
    IF skill_ids = <<>> THEN sk
    ELSE LET skill_id == Head(skill_ids)
             sk1 == IF skill_id \in DOMAIN sk
                    THEN [sk EXCEPT ![skill_id].missions_count =
                              Cardinality(get_missions_for_skill(ms, skill_id) \ {mission_id})]
                    ELSE sk
         IN  archive_counts(ms, sk1, mission_id, Tail(skill_ids))

\* archive_mission
ArchiveMission(mission_id) ==
    /\ mission_id \in DOMAIN missions
    /\ adjustments < MaxAdjustments
    /\ adjustments' = adjustments + 1
    /\ skills' = archive_counts(missions, skills, mission_id, missions[mission_id].skill_ids)
    /\ missions' = [missions EXCEPT ![mission_id].is_archived = TRUE]
    /\ last' = [op |-> "archive_mission", mission_id |-> mission_id]
    /\ UNCHANGED <<player, completions, now, credits, crashes, probe>>

\* the second loop of reassign_mission_skills, over new_skill_ids: the store still
\* holds the mission with its old skills, the count adds one for it
RECURSIVE reassign_counts(_, _, _)
reassign_counts(ms, sk, skill_ids) ==
    IF skill_ids = <<>> THEN sk
    ELSE LET skill_id == Head(skill_ids)
             sk1 == IF skill_id \in DOMAIN sk
                    THEN [sk EXCEPT ![skill_id].missions_count =
                              Cardinality(get_missions_for_skill(ms, skill_id)) + 1]
                    ELSE sk
         IN  reassign_counts(ms, sk1, Tail(skill_ids))

\* reassign_mission_skills on tables <<ms, sk>>: the tables after it, and whether
\* it raised (the length check comes before the first save)
reassign_mission_skills(ms, sk, mission_id, new_skill_ids) ==
    IF Len(new_skill_ids) > 2 THEN <<ms, sk, TRUE>>
    ELSE <<[ms EXCEPT ![mission_id].skill_ids = new_skill_ids],
           reassign_counts(ms, archive_counts(ms, sk, mission_id, ms[mission_id].skill_ids),
                           new_skill_ids),
           FALSE>>

ReassignMissionSkills(mission_id, new_skill_ids) ==
    /\ mission_id \in DOMAIN missions
    /\ adjustments < MaxAdjustments
    /\ adjustments' = adjustments + 1
    /\ MissionCall(reassign_mission_skills(missions, skills, mission_id, new_skill_ids),
                   "reassign_mission_skills", mission_id)
    /\ UNCHANGED <<player, completions, now, credits, crashes, probe>>

\* adjust_mission_difficulty on tables <<ms, sk>>
adjust_mission_difficulty(ms, sk, mission_id, new_difficulty) ==
    IF ~(1 <= new_difficulty /\ new_difficulty <= 5) THEN <<ms, sk, TRUE>>
    ELSE <<[ms EXCEPT ![mission_id].difficulty = new_difficulty], sk, FALSE>>

AdjustMissionDifficulty(mission_id, new_difficulty) ==
    /\ mission_id \in DOMAIN missions
    /\ adjustments < MaxAdjustments
    /\ adjustments' = adjustments + 1
    /\ MissionCall(adjust_mission_difficulty(missions, skills, mission_id, new_difficulty),
                   "adjust_mission_difficulty", mission_id)
    /\ UNCHANGED <<player, completions, now, credits, crashes, probe>>

\* adjust_mission_energy on tables <<ms, sk>>
adjust_mission_energy(ms, sk, mission_id, new_energy) ==
    IF ~(1 <= new_energy /\ new_energy <= 5) THEN <<ms, sk, TRUE>>
    ELSE <<[ms EXCEPT ![mission_id].energy = new_energy], sk, FALSE>>

AdjustMissionEnergy(mission_id, new_energy) ==
    /\ mission_id \in DOMAIN missions
    /\ adjustments < MaxAdjustments
    /\ adjustments' = adjustments + 1
    /\ MissionCall(adjust_mission_energy(missions, skills, mission_id, new_energy),
                   "adjust_mission_energy", mission_id)
    /\ UNCHANGED <<player, completions, now, credits, crashes, probe>>

\* archive_skill
ArchiveSkill(skill_id) ==
    /\ skill_id \in DOMAIN skills
    /\ adjustments < MaxAdjustments
    /\ adjustments' = adjustments + 1
    /\ skills' = [skills EXCEPT ![skill_id].is_archived = TRUE]
    /\ last' = [op |-> "archive_skill", skill_id |-> skill_id]
    /\ UNCHANGED <<player, missions, completions, now, credits, crashes, probe>>

Next ==
    \/ \E d \in TickSteps : Tick(d)
    \/ \E s \in SkillIds : CreateSkill(s, "weekly", FALSE)
    \/ \E l \in SkillIdLists, d \in Difficulties, e \in Energies : CreateMission(l, d, e)
    \/ \E l \in TemplateSkillLists : InstantiateTemplate(l)
    \/ \E m \in PlayedMissions : CompleteMission(m)

Spec == Init /\ [][Next]_vars

\* the same session with the adjustment menu in use
AdjustedSkills == {"S1"}
AdjustedMissions == {1, 2}
ReassignLists == {<<"S2">>, <<"S2", "S1">>}

NextAdjust ==
    \/ \E d \in TickSteps : Tick(d)
    \/ \E s \in AdjustedSkills : CreateSkill(s, "weekly", FALSE)
    \/ \E l \in {<<"S1">>}, d \in Difficulties, e \in Energies : CreateMission(l, d, e)
    \/ \E l \in {<<"S1">>} : InstantiateTemplate(l)
    \/ \E m \in AdjustedMissions : CompleteMission(m)
    \/ \E s \in AdjustedSkills, c \in {"daily", "weekly"} : ChangeSkillCadence(s, c)
    \/ \E s \in AdjustedSkills : ToggleFocusMode(s)
    \/ \E m \in AdjustedMissions : ArchiveMission(m)
    \/ \E m \in AdjustedMissions, l \in ReassignLists : ReassignMissionSkills(m, l)

SpecAdjust == Init /\ [][NextAdjust]_vars

\* one skill and its template missions under every operation that saves a skill
FlagMissions == {1, 2}
FlagAdjustedMissions == {2}
FlagReassignLists == {<<"S2", "S1">>}

NextFlag ==
    \/ \E d \in TickSteps : Tick(d)
    \/ \E s \in AdjustedSkills : CreateSkill(s, "weekly", FALSE)
    \/ \E l \in {<<"S1">>}, d \in Difficulties, e \in Energies : CreateMission(l, d, e)
    \/ \E l \in {<<"S1">>} : InstantiateTemplate(l)
    \/ \E m \in FlagMissions : CompleteMission(m)
    \/ \E s \in AdjustedSkills : ChangeSkillCadence(s, "weekly")
    \/ \E s \in AdjustedSkills : ToggleFocusMode(s)
    \/ \E m \in FlagAdjustedMissions : ArchiveMission(m)
    \/ \E m \in FlagAdjustedMissions, l \in FlagReassignLists : ReassignMissionSkills(m, l)

SpecFlag == Init /\ [][NextFlag]_vars

\* the same session with skills being archived
NextArchive ==
    \/ \E d \in TickSteps : Tick(d)
    \/ \E s \in SkillIds : CreateSkill(s, "weekly", FALSE)
    \/ \E l \in TemplateSkillLists : InstantiateTemplate(l)
    \/ \E m \in AdjustedMissions : CompleteMission(m)
    \/ \E s \in AdjustedSkills : ArchiveSkill(s)

SpecArchive == Init /\ [][NextArchive]_vars

\* the operations with a process that can stop between two commits
CrashPoints == 1..3

NextCrash ==
    \/ \E d \in TickSteps : Tick(d)
    \/ \E s \in SkillIds : CreateSkill(s, "weekly", FALSE)
    \/ \E l \in SkillIdLists, d \in Difficulties, e \in Energies : CreateMission(l, d, e)
    \/ \E m \in SingleMissionIds : CompleteMission(m)
    \/ \E m \in SingleMissionIds, k \in CrashPoints : CompleteMissionCrash(m, k)

SpecCrash == Init /\ [][NextCrash]_vars

\* an id no mission ever gets, and the id of the mission created later
MissingMissions == {Len(CustomTemplate) + 1, Len(CustomTemplate) + 2}

\* skill lists and ratings offered to the validated calls: legal ones, the empty
\* list, a list that names a skill twice, a list of three skills, and ratings on
\* both sides of 1..5
OfferedSkillIdLists == SkillIdLists \cup {<<>>, <<"S1", "S1">>, <<"S1", "S2", "S1">>}
OfferedRatings == {0, 3, 6}

\* the operations with the calls that raise ValueError
NextErrors ==
    \/ \E d \in TickSteps : Tick(d)
    \/ \E s \in SkillIds : CreateSkill(s, "weekly", FALSE)
    \/ \E l \in OfferedSkillIdLists, d \in OfferedRatings, e \in OfferedRatings :
          CreateMission(l, d, e)
    \/ \E m \in SingleMissionIds : CompleteMission(m)
    \/ \E m \in MissingMissions : CompleteMissingMission(m)
    \/ \E m \in SingleMissionIds, d \in OfferedRatings : AdjustMissionDifficulty(m, d)
    \/ \E m \in SingleMissionIds, e \in OfferedRatings : AdjustMissionEnergy(m, e)
    \/ \E m \in SingleMissionIds, l \in OfferedSkillIdLists : ReassignMissionSkills(m, l)

SpecErrors == Init /\ [][NextErrors]_vars

(***************************************************************************)
(* CycleService.calculate_cycle_boundaries applied on its own              *)
(***************************************************************************)
\* reference times: 2024-02-29, 03-01, 03-06 (a Wednesday), 03-07, 03-10 (a
\* Sunday) and 03-11 (a Monday), at 00:00, 03:00, 10:00 and 23:00
ReferenceDays == {59, 60, 65, 66, 69, 70}
ReferenceHours == {0, 3, 10, 23}
ReferenceTimes == {d * HoursPerDay + h : d \in ReferenceDays, h \in ReferenceHours}
DayStartHours == 0..(HoursPerDay - 1)

InitBoundaries ==
    /\ Init!1 /\ Init!2 /\ Init!3 /\ Init!4 /\ Init!5 /\ Init!6 /\ Init!7 /\ Init!8 /\ Init!9
    /\ \E c \in CycleTypes : \E t \in ReferenceTimes : \E h \in DayStartHours :
          probe = [fn |-> "boundaries_input", cycle_type |-> c, reference_time |-> t,
                   day_starts_at |-> h]

ApplyBoundaries ==
    /\ probe.fn = "boundaries_input"
    /\ probe' = [fn |-> "boundaries", cycle_type |-> probe.cycle_type,
                 reference_time |-> probe.reference_time,
                 day_starts_at |-> probe.day_starts_at,
                 engine |-> calculate_cycle_boundaries(probe.cycle_type,
                                probe.reference_time, probe.day_starts_at),
                 utils |-> get_cycle_boundaries(probe.cycle_type,
                               probe.reference_time, probe.day_starts_at)]
    /\ UNCHANGED <<player, skills, missions, completions, now, credits, last, adjustments,
                   crashes>>

NextBoundaries == ApplyBoundaries

SpecBoundaries == InitBoundaries /\ [][NextBoundaries]_vars

(***************************************************************************)
(* ActionLoop._update_all_cycles applied to one skill at successive times  *)
(***************************************************************************)
\* the times of the calls: 2024-02-29, 03-01, 03-06, 03-07, 03-11, 03-12 and
\* 04-01, at 00:00, 10:00 and 23:00
RollDays == {59, 60, 65, 66, 70, 71, 91}
RollHours == {0, 10, 23}
RollTimes == {d * HoursPerDay + h : d \in RollDays, h \in RollHours}
RollDayStartHours == {0, 5, 23}

\* the cycle of the skill as a history entry
CycleOf(skill) == [cycle_start |-> skill.cycle_start, cycle_end |-> skill.cycle_end]

\* the skill is created at the first time, with cadence c and day start h
InitRoll ==
    /\ Init!1 /\ Init!2 /\ Init!3 /\ Init!4 /\ Init!5 /\ Init!6 /\ Init!7 /\ Init!8 /\ Init!9
    /\ \E c \in CycleTypes : \E t \in RollTimes : \E h \in RollDayStartHours :
          probe = [fn |-> "roll", day_starts_at |-> h, at |-> t,
                   skills |-> ("S1" :> create_skill(c, FALSE, t, h)),
                   cycles |-> <<CycleOf(create_skill(c, FALSE, t, h))>>]

\* the history after a call that left the skills table rolled
Rolled(rolled, stale, t) ==
    probe' = [probe EXCEPT !.at = t, !.skills = rolled,
                           !.cycles = IF "S1" \in stale
                                      THEN Append(@, CycleOf(rolled["S1"])) ELSE @]

\* _update_all_cycles at a later time t
ApplyRoll(t) ==
    /\ probe.fn = "roll"
    /\ t > probe.at
    /\ Len(probe.cycles) <= MaxRolls
    /\ Rolled(update_all_cycles(<<>>, probe.skills, t, probe.day_starts_at,
                                [s \in StaleSkills(probe.skills, t) |-> NoMission]),
              StaleSkills(probe.skills, t), t)
    /\ UNCHANGED <<player, skills, missions, completions, now, credits, last, adjustments,
                   crashes>>

NextRoll == \E t \in RollTimes : ApplyRoll(t)

SpecRoll == InitRoll /\ [][NextRoll]_vars

(***************************************************************************)
(* Skill.add_xp and Player.add_xp applied on their own                     *)
(***************************************************************************)
AddXpLevels == 1..2
AddXpAmounts == {0, 1, 119, 120, 340, 400, 1000}
\* the XP an entity of the level can hold: below the level's requirement
AddXpHeld(entity) == {0, 64, entity.requirement - 1}

AddXpEntities ==
    {[kind |-> "player", level |-> l, requirement |-> LevelCurveTable[l]] : l \in AddXpLevels}
    \cup {[kind |-> "skill", level |-> l, requirement |-> LevelCurveTable[l]] : l \in AddXpLevels}
    \cup {[kind |-> "focus_skill", level |-> l, requirement |-> 2 * LevelCurveTable[l]] :
             l \in AddXpLevels}

\* the Player or Skill object of an input
AddXpObject(e, xp) ==
    IF e.kind = "player" THEN [NewPlayer EXCEPT !.level = e.level, !.xp = xp]
    ELSE [NewSkill("weekly", e.kind = "focus_skill") EXCEPT !.level = e.level, !.xp = xp]

InitAddXp ==
    /\ Init!1 /\ Init!2 /\ Init!3 /\ Init!4 /\ Init!5 /\ Init!6 /\ Init!7 /\ Init!8 /\ Init!9
    /\ \E e \in AddXpEntities : \E xp \in AddXpHeld(e) : \E amount \in AddXpAmounts :
          probe = [fn |-> "add_xp_input", kind |-> e.kind, object |-> AddXpObject(e, xp),
                   amount |-> amount]

ApplyAddXp ==
    /\ probe.fn = "add_xp_input"
    /\ LET r == IF probe.kind = "player" THEN player_add_xp(probe.object, probe.amount)
                ELSE skill_add_xp(probe.object, probe.amount)
       IN  probe' = [fn |-> "add_xp", kind |-> probe.kind, before |-> probe.object,
                     amount |-> probe.amount, after |-> r[1], leveled_up |-> r[2]]
    /\ UNCHANGED <<player, skills, missions, completions, now, credits, last, adjustments,
                   crashes>>

NextAddXp == ApplyAddXp

SpecAddXp == InitAddXp /\ [][NextAddXp]_vars

(***************************************************************************)
(* CycleService.start_new_cycle applied on its own                         *)
(***************************************************************************)
\* the skills start_new_cycle is given: a new one, and one whose last cycle had a
\* target that was hit
StartCycleSkills ==
    {NewSkill(c, FALSE) : c \in CycleTypes}
    \cup {[NewSkill(c, FALSE) EXCEPT !.target_mission_id = 1,
                                     !.has_hit_target_this_cycle = TRUE,
                                     !.missions_count = READY_THRESHOLD,
                                     !.cycle_start = 0, !.cycle_end = HoursPerDay] :
             c \in CycleTypes}

\* the missions assigned to the skill: none, up to all of MissionIds
StartCycleMissions == {1..n : n \in 0..Cardinality(MissionIds)} \cup {MissionIds \ {1}}

InitStartCycle ==
    /\ Init!1 /\ Init!2 /\ Init!3 /\ Init!4 /\ Init!5 /\ Init!6 /\ Init!7 /\ Init!8 /\ Init!9
    /\ \E skill \in StartCycleSkills : \E mission_ids \in StartCycleMissions :
          probe = [fn |-> "start_new_cycle_input", skill |-> skill,
                   mission_ids |-> mission_ids]

ApplyStartCycle ==
    /\ probe.fn = "start_new_cycle_input"
    /\ \E chosen \in TargetChoices(probe.mission_ids) :
          probe' = [fn |-> "start_new_cycle", before |-> probe.skill,
                    mission_ids |-> probe.mission_ids,
                    skill |-> start_new_cycle(probe.skill, probe.mission_ids, now,
                                              player.day_starts_at, chosen)]
    /\ UNCHANGED <<player, skills, missions, completions, now, credits, last, adjustments,
                   crashes>>

NextStartCycle == ApplyStartCycle

SpecStartCycle == InitStartCycle /\ [][NextStartCycle]_vars

(***************************************************************************)
(* Measures used by the properties                                         *)
(***************************************************************************)
RECURSIVE SumCurve(_)
SumCurve(level) == IF level = 0 THEN 0 ELSE LevelCurveTable[level] + SumCurve(level - 1)

\* all the XP a player / a skill has been granted so far
TotalPlayerXp(p) == p.xp + SumCurve(p.level - 1)
TotalSkillXp(sk) == sk.xp + (IF sk.is_focus THEN 2 ELSE 1) * SumCurve(sk.level - 1)

\* the indices of the credit decisions taken for a (mission, skill) pair while
\* the skill's cycle_start had the given value
DecisionsIn(mission_id, skill_id, cycle_start) ==
    {i \in 1..Len(credits) : /\ credits[i].mission_id = mission_id
                              /\ credits[i].skill_id = skill_id
                              /\ credits[i].cycle_start = cycle_start}

Completed == last.op = "complete_mission"

(***************************************************************************)
(* C1. One credit per mission per skill-cycle: of the complete_mission     *)
(* calls made for a mission while an attached skill's cycle_start is       *)
(* unchanged, exactly one credits base skill XP to that skill, whether the *)
(* skill is listed first or second on the mission.                         *)
(***************************************************************************)
C1_OneCreditPerSkillCycle ==
    \A i \in 1..Len(credits) :
        LET group == DecisionsIn(credits[i].mission_id, credits[i].skill_id,
                                 credits[i].cycle_start)
        IN  Cardinality({j \in group : credits[j].credited}) = 1

(***************************************************************************)
(* C4. In a single complete_mission call at most one skill receives the    *)
(* cycle bonus, so the player receives the 40 x difficulty bonus at most    *)
(* once per call.                                                          *)
(***************************************************************************)
C4_OneBonusPerCall ==
    Completed =>
        /\ Len(last.bonused) <= 1
        /\ TotalPlayerXp(player) - TotalPlayerXp(last.player_before)
              <= base_player_xp(missions[last.mission_id])
                 + cycle_player_xp(missions[last.mission_id])

(***************************************************************************)
(* C5. After a skill's cycle has rolled over, a completion of a mission    *)
(* already credited to that skill in an earlier cycle credits the skill's  *)
(* base XP again.                                                          *)
(***************************************************************************)
\* the decisions of the last call are the tail of credits
EarlierDecisions == 1..(Len(credits) - Len(last.log))

CreditedBefore(mission_id, skill_id) ==
    \E i \in EarlierDecisions : /\ credits[i].mission_id = mission_id
                                 /\ credits[i].skill_id = skill_id
                                 /\ credits[i].credited

C9_PlayerLevelInvariant ==
    /\ player.level >= 1
    /\ 0 <= player.xp
    /\ player.xp < player_xp_for_next_level(player)

C9_Witness ==
    /\ Completed
    /\ last.result.player_leveled_up
    /\ player.level >= 2
    /\ player.xp > 0

(***************************************************************************)
(* C10. Completing a mission of difficulty d attached to one skill whose   *)
(* target is the mission, not yet hit, and not yet credited in this cycle, *)
(* grants the player 4d + 40d XP and 2d coins, grants the skill 8d + 80d   *)
(* XP and sets has_hit_target_this_cycle.                                  *)
(***************************************************************************)
\* the case of C10, read off the tables: s is the only skill of the mission, its
\* target (after the roll, if any) is the mission, the target was not hit when the
\* call processed s, and no completion record of the mission carried s's cycle id
C10_Case(s) ==
    /\ Completed
    /\ missions[last.mission_id].skill_ids = <<s>>
    /\ s \in DOMAIN skills
    /\ skills[s].target_mission_id = last.mission_id
    /\ s \in last.rolled \/ ~last.skills_before[s].has_hit_target_this_cycle
    /\ \A i \in 1..(Len(completions) - 1) :
          ~(/\ completions[i].mission_id = last.mission_id
            /\ completions[i].cycle_id = <<s, skills[s].cycle_start>>)

C10_TargetHitTotals ==
    \A s \in SkillIds :
        C10_Case(s) =>
            LET d == missions[last.mission_id].difficulty
            IN  /\ TotalPlayerXp(player) - TotalPlayerXp(last.player_before) = 4 * d + 40 * d
                /\ TotalSkillXp(skills[s]) - TotalSkillXp(last.skills_before[s])
                      = 8 * d + 80 * d
                /\ player.coins - last.player_before.coins = 2 * d
                /\ skills[s].has_hit_target_this_cycle

C10_Witness == \E s \in SkillIds : C10_Case(s)

(***************************************************************************)
(* C3. Within one cycle window [cycle_start, cycle_end) of a skill the     *)
(* cycle bonus is awarded for that skill at most once, over any sequence   *)
(* of complete_mission calls interleaved with adjustment operations.       *)
(***************************************************************************)
C3_OneBonusPerWindow ==
    \A i, j \in 1..Len(credits) :
        (/\ i < j
         /\ credits[i].bonus /\ credits[j].bonus
         /\ credits[i].skill_id = credits[j].skill_id
         /\ credits[i].cycle_start = credits[j].cycle_start)
        => credits[i].cycle_end # credits[j].cycle_end

(***************************************************************************)
(* C6. In every reachable state a stored skill has a non-null              *)
(* target_mission_id only if its missions_count is at least 8.             *)
(***************************************************************************)
C6_TargetOnlyWhenReady ==
    \A s \in DOMAIN skills :
        skills[s].target_mission_id # NoMission
            => skills[s].missions_count >= READY_THRESHOLD


\* C2: complete_mission is all-or-nothing under a crash: when the process has
\* stopped between two commits of one call, the stored skills, player and
\* completions are those before the call or those after all its commits.
C2_AllOrNothingUnderCrash ==
    last.op = "crash" =>
        LET durable == [skills |-> skills, player |-> player, completions |-> completions]
        IN  durable = last.before \/ durable = last.after


(***************************************************************************)
(* C7. Immediately after start_new_cycle(skill, missions, ...): with fewer *)
(* than 8 missions target_mission_id is null; with 8 or more it is         *)
(* non-null and the id of one of the missions, and any of them can be the  *)
(* one chosen.                                                             *)
(***************************************************************************)
C7_StartCycleTarget ==
    /\ probe.fn = "start_new_cycle" =>
          IF Cardinality(probe.mission_ids) < 8
          THEN probe.skill.target_mission_id = NoMission
          ELSE /\ probe.skill.target_mission_id # NoMission
               /\ probe.skill.target_mission_id \in probe.mission_ids
    /\ (probe.fn = "start_new_cycle_input" /\ Cardinality(probe.mission_ids) >= 8) =>
          \A m \in probe.mission_ids :
              ENABLED (ApplyStartCycle /\ probe'.skill.target_mission_id = m)

\* start_new_cycle has run on a skill with 8 missions or more whose previous
\* target was another mission
C7_Witness ==
    /\ probe.fn = "start_new_cycle"
    /\ Cardinality(probe.mission_ids) >= 8
    /\ probe.before.target_mission_id \notin {NoMission, probe.skill.target_mission_id}
    /\ probe.skill.target_mission_id = Cardinality(probe.mission_ids)

(***************************************************************************)
(* C8. For a player or skill with xp < requirement(level) and a            *)
(* non-negative amount, add_xp leaves level non-decreasing and             *)
(* xp < requirement(new level), performing as many level-ups as the amount *)
(* covers, so that no granted XP is lost.                                  *)
(***************************************************************************)
C8_AddXpLevelsUpFully ==
    probe.fn = "add_xp" =>
        /\ probe.after.level >= probe.before.level
        /\ probe.after.xp >= 0
        /\ probe.after.xp < (IF probe.kind = "player"
                             THEN player_xp_for_next_level(probe.after)
                             ELSE skill_xp_for_next_level(probe.after))
        /\ IF probe.kind = "player"
           THEN TotalPlayerXp(probe.after) = TotalPlayerXp(probe.before) + probe.amount
           ELSE TotalSkillXp(probe.after) = TotalSkillXp(probe.before) + probe.amount

(***************************************************************************)
(* C11. A complete_mission call whose guard skips a skill (the mission was *)
(* already credited to it in this cycle) leaves that skill's row as it     *)
(* was, and the call still grants the player 4 x difficulty base XP and    *)
(* 2 x difficulty coins, however many skills the guard skipped.            *)
(***************************************************************************)
\* the skills the guard of the last call skipped
Skipped == {last.log[i].skill_id : i \in {j \in 1..Len(last.log) : ~last.log[j].credited}}

C11_GuardedSkillUnchanged ==
    Completed =>
        LET d == missions[last.mission_id].difficulty
        IN  /\ \A s \in Skipped : skills[s] = last.skills_before[s]
            /\ TotalPlayerXp(player) - TotalPlayerXp(last.player_before)
                  = 4 * d + 40 * d * Len(last.bonused)
            /\ player.coins - last.player_before.coins = 2 * d

\* a repeat call in which the guard skipped every skill of the mission
C11_Witness ==
    /\ Completed
    /\ Skipped # {}
    /\ \A i \in 1..Len(last.log) : ~last.log[i].credited
    /\ player.coins = last.player_before.coins + 2 * missions[last.mission_id].difficulty

(***************************************************************************)
(* C12. complete_mission with a mission id that is not in the store raises *)
(* before anything else happens: no cycle is rolled, and the player, every *)
(* skill and the completion records are unchanged.                         *)
(***************************************************************************)
C12_MissingMissionAborts ==
    last.op = "complete_mission_error" =>
        /\ last.mission_id \notin DOMAIN missions
        /\ skills = last.skills_before
        /\ player = last.player_before
        /\ completions = last.completions_before

\* the call was made while a stored skill's cycle was stale
C12_Witness ==
    /\ last.op = "complete_mission_error"
    /\ StaleSkills(skills, now) # {}
    /\ completions # <<>>

(***************************************************************************)
(* C13. When a skill id listed on the mission is absent from the store,    *)
(* complete_mission does not fail: that skill is skipped, every other      *)
(* attached skill is processed as usual (credited unless the guard finds a *)
(* record for its cycle id), the player is granted base XP and coins, and  *)
(* one completion record is written.                                       *)
(***************************************************************************)
\* the skill ids of the last call's mission that the store does not hold
AbsentSkills == {s \in Range(missions[last.mission_id].skill_ids) : s \notin DOMAIN skills}

C13_AbsentSkillSkipped ==
    (Completed /\ AbsentSkills # {}) =>
        LET d == missions[last.mission_id].difficulty
            attached == Range(missions[last.mission_id].skill_ids)
        IN  /\ DOMAIN skills = DOMAIN last.skills_before
            /\ \A i \in 1..Len(last.log) : last.log[i].skill_id \notin AbsentSkills
            /\ \A s \in attached \ AbsentSkills :
                  \E i \in 1..Len(last.log) :
                      /\ last.log[i].skill_id = s
                      /\ last.log[i].credited
                            = (get_completions_for_mission_in_cycle(
                                   last.completions_before, last.mission_id,
                                   <<s, last.log[i].cycle_start>>) = {})
                      /\ last.log[i].credited =>
                            TotalSkillXp(skills[s])
                                >= TotalSkillXp(last.skills_before[s]) + 8 * d
            /\ TotalPlayerXp(player) >= TotalPlayerXp(last.player_before) + 4 * d
            /\ player.coins = last.player_before.coins + 2 * d
            /\ Len(completions) = Len(last.completions_before) + 1
            /\ completions[Len(completions)].mission_id = last.mission_id

\* the first listed skill is absent and the second one was credited
C13_Witness ==
    /\ Completed
    /\ missions[last.mission_id].skill_ids[1] \in AbsentSkills
    /\ \E i \in 1..Len(last.log) : last.log[i].credited

(***************************************************************************)
(* C14. Stale cycles are rolled before any reward is computed: a           *)
(* non-archived attached skill with now >= cycle_end is restarted first,   *)
(* so the guard, the target check and the completion record's cycle id use *)
(* the new cycle_start, and on return no non-archived skill has            *)
(* now >= cycle_end.                                                       *)
(***************************************************************************)
C14_RolledBeforeRewards ==
    Completed =>
        LET ids == missions[last.mission_id].skill_ids
            record == completions[Len(completions)]
        IN  /\ \A s \in DOMAIN skills :
                  ~skills[s].is_archived => now < skills[s].cycle_end
            /\ \A s \in last.rolled \cap Range(ids) :
                  /\ skills[s].cycle_start >= last.skills_before[s].cycle_end
                  /\ \E i \in 1..Len(last.log) :
                        /\ last.log[i].skill_id = s
                        /\ last.log[i].cycle_start = skills[s].cycle_start
                        /\ last.log[i].credited
                        /\ last.log[i].bonus
                              = (skills[s].target_mission_id = last.mission_id)
            /\ (ids # <<>> /\ ids[1] \in DOMAIN skills) =>
                  record.cycle_id = <<ids[1], skills[ids[1]].cycle_start>>

\* the call found the cycle of the mission's first skill stale
C14_Witness ==
    /\ Completed
    /\ missions[last.mission_id].skill_ids # <<>>
    /\ missions[last.mission_id].skill_ids[1] \in last.rolled
    /\ last.skills_before[missions[last.mission_id].skill_ids[1]].cycle_end <= now

(***************************************************************************)
(* C15. Every successful complete_mission call persists exactly one        *)
(* Completion record; its cycle id is that of the first skill listed on    *)
(* the mission (skill id and cycle_start), and it is the sentinel only     *)
(* when the mission has no attached skills.                                *)
(***************************************************************************)
C15_RecordCycleId ==
    Completed =>
        LET ids == missions[last.mission_id].skill_ids
            record == completions[Len(completions)]
        IN  /\ Len(completions) = Len(last.completions_before) + 1
            /\ record.mission_id = last.mission_id
            /\ ids # <<>> => record.cycle_id[1] = ids[1]
            /\ (ids # <<>> /\ ids[1] \in DOMAIN skills) =>
                  record.cycle_id = <<ids[1], skills[ids[1]].cycle_start>>
            /\ record.cycle_id = NoSkillCycleId => ids = <<>>

(***************************************************************************)
(* C16. A newly created skill has had start_new_cycle applied once with an *)
(* empty mission list: cycle_start and cycle_end are set, missions_count   *)
(* is 0, target_mission_id is null and has_hit_target_this_cycle is false; *)
(* and a skill without a target gets one only when a later                 *)
(* start_new_cycle sees at least 8 assigned missions.                      *)
(***************************************************************************)
\* a step gives a target to a skill that had none only by restarting its cycle
\* with 8 assigned missions or more
C16_TargetOnlyFromReadyStart ==
    \A s \in DOMAIN skills :
        (skills[s].target_mission_id = NoMission
            /\ skills'[s].target_mission_id # NoMission)
        => /\ Cardinality(get_missions_for_skill(missions, s)) >= 8
           /\ skills'[s].target_mission_id \in get_missions_for_skill(missions, s)
           /\ skills'[s].missions_count >= 8
           /\ skills'[s].cycle_start # skills[s].cycle_start

C16_NewSkillHasNoTarget ==
    /\ [](last.op = "create_skill" =>
            LET skill == skills[last.skill_id]
            IN  /\ skill.cycle_start <= now /\ now < skill.cycle_end
                /\ skill.missions_count = 0
                /\ skill.target_mission_id = NoMission
                /\ ~skill.has_hit_target_this_cycle)
    /\ [][C16_TargetOnlyFromReadyStart]_vars

\* a skill has just been created while another skill has drawn a target
C16_Witness ==
    /\ last.op = "create_skill"
    /\ skills[last.skill_id].target_mission_id = NoMission
    /\ \E s \in DOMAIN skills : skills[s].target_mission_id # NoMission

(***************************************************************************)
(* C17. The boundaries the cycle engine computes honour the day-start      *)
(* offset: for every cadence, reference time and day start hour in 0..23   *)
(* the interval satisfies start <= reference time < end, and equals the    *)
(* result of time_utils.get_cycle_boundaries on the same inputs.           *)
(***************************************************************************)
C17_BoundariesHonourDayStart ==
    probe.fn = "boundaries" =>
        /\ probe.engine[1] <= probe.reference_time
        /\ probe.reference_time < probe.engine[2]
        /\ probe.engine = probe.utils

(***************************************************************************)
(* C18. For the weekly cadence with day start hour 0 and any reference     *)
(* time, the boundaries are 00:00 of the Monday of the reference time's    *)
(* week and 7 days later; 2024-03-06T10:00 gives 2024-03-04T00:00 and      *)
(* 2024-03-11T00:00.                                                       *)
(***************************************************************************)
C18_WeeklyFromMonday ==
    (probe.fn = "boundaries" /\ probe.cycle_type = "weekly" /\ probe.day_starts_at = 0) =>
        /\ probe.engine[1] % (7 * 24) = 0
        /\ probe.engine[1] <= probe.reference_time
        /\ probe.reference_time < probe.engine[1] + 7 * 24
        /\ probe.engine[2] = probe.engine[1] + 7 * 24
        /\ probe.reference_time = 65 * 24 + 10 => probe.engine = <<63 * 24, 70 * 24>>

\* the boundaries of Wednesday 2024-03-06T10:00 have been computed
C18_Witness ==
    /\ probe.fn = "boundaries"
    /\ probe.cycle_type = "weekly"
    /\ probe.day_starts_at = 0
    /\ probe.reference_time = 65 * 24 + 10
    /\ probe.engine[1] < probe.reference_time

(***************************************************************************)
(* C19. At every level L a Focus skill needs exactly twice the XP a        *)
(* non-Focus skill needs (2 x ceil(120 x L^1.5)), so the amount that       *)
(* exactly levels up a non-Focus skill from xp 0 does not level up a Focus *)
(* skill of the same level and xp.                                         *)
(***************************************************************************)
\* n = ceil(120 x L^1.5): the least n with n^2 >= 120^2 x L^3
IsCeilOfCurve(n, L) ==
    /\ n * n >= 14400 * L * L * L
    /\ (n - 1) * (n - 1) < 14400 * L * L * L

C19_FocusDoubling ==
    /\ \A L \in 1..MaxLevel :
          LET plain == skill_xp_for_next_level(AddXpObject([kind |-> "skill", level |-> L], 0))
              focus == skill_xp_for_next_level(
                           AddXpObject([kind |-> "focus_skill", level |-> L], 0))
          IN  IsCeilOfCurve(plain, L) /\ focus = 2 * plain
    /\ (probe.fn = "add_xp" /\ probe.before.xp = 0
           /\ IsCeilOfCurve(probe.amount, probe.before.level)) =>
          CASE probe.kind = "skill" ->
                  /\ probe.leveled_up
                  /\ probe.after.level = probe.before.level + 1
                  /\ probe.after.xp = 0
            [] probe.kind = "focus_skill" ->
                  /\ ~probe.leveled_up
                  /\ probe.after.level = probe.before.level
                  /\ probe.after.xp = probe.amount
            [] OTHER -> TRUE

\* a Focus skill at level 2 and xp 0 has been given the 340 XP that level up a
\* non-Focus skill
C19_Witness ==
    /\ probe.fn = "add_xp"
    /\ probe.kind = "focus_skill"
    /\ probe.before.level = 2 /\ probe.before.xp = 0
    /\ probe.amount = 340
    /\ probe.after.level = 2

\* the calls that validate a mission's difficulty, energy or skill list
ValidatedCalls ==
    {"create_mission", "adjust_mission_difficulty", "adjust_mission_energy",
     "reassign_mission_skills"}

ValidationError == last.op \in ValidatedCalls /\ "raised" \in DOMAIN last

\* C20: a create_mission, adjust_mission_difficulty, adjust_mission_energy or
\* reassign_mission_skills call that fails validation leaves the stored missions
\* and every skill's missions_count as they were, and every stored mission has
\* difficulty and energy in 1..5 and at most 2 skills.
C20_ValidationChangesNothing ==
    /\ ValidationError =>
          /\ missions = last.missions_before
          /\ DOMAIN skills = DOMAIN last.skills_before
          /\ \A s \in DOMAIN skills :
                 skills[s].missions_count = last.skills_before[s].missions_count
    /\ \A m \in DOMAIN missions :
          /\ missions[m].difficulty \in 1..5
          /\ missions[m].energy \in 1..5
          /\ Len(missions[m].skill_ids) <= 2

\* a rejected energy adjustment of a stored mission whose skill counts it
C20_Witness ==
    /\ ValidationError
    /\ last.op = "adjust_mission_energy"
    /\ last.mission_id \in DOMAIN missions
    /\ \E s \in DOMAIN skills : skills[s].missions_count > 0

(***************************************************************************)
(* C21. Every mission in the store has at least one and at most two skill  *)
(* identifiers, after any sequence of create_mission and                   *)
(* reassign_mission_skills calls.                                          *)
(***************************************************************************)
C21_OneOrTwoSkills ==
    \A m \in DOMAIN missions : Len(missions[m].skill_ids) \in 1..2

\* the attached skills whose level rose during the last complete_mission call
RisenSkills ==
    {s \in Range(missions[last.mission_id].skill_ids) \cap DOMAIN skills :
        skills[s].level > last.skills_before[s].level}

(***************************************************************************)
(* C22. The result of complete_mission reports level-ups faithfully:       *)
(* player_leveled_up is true exactly when the player's level rose during   *)
(* the call, and skill_level_ups lists exactly the attached skills whose   *)
(* level rose during the call, from the base skill XP or from the cycle    *)
(* bonus.                                                                  *)
(***************************************************************************)
C22_LevelUpsReported ==
    Completed =>
        /\ last.result.player_leveled_up <=> player.level > last.player_before.level
        /\ Range(last.result.skill_level_ups) = RisenSkills

(***************************************************************************)
(* C23. The xp_earned and coins_earned fields returned by complete_mission *)
(* equal the total player XP and the total coins granted to the player by  *)
(* that call, the cycle bonus included.                                    *)
(***************************************************************************)
C23_EarnedTotals ==
    Completed =>
        /\ last.result.xp_earned = TotalPlayerXp(player) - TotalPlayerXp(last.player_before)
        /\ last.result.coins_earned = player.coins - last.player_before.coins

\* the step called start_new_cycle on skill s: in create_skill, in
\* change_skill_cadence, or in the _update_all_cycles of a complete_mission
StartedCycle(s) ==
    \/ last'.op \in {"create_skill", "change_skill_cadence"} /\ last'.skill_id = s
    \/ last'.op = "complete_mission" /\ s \in last'.rolled

\* a step clears the flag of a skill only if it started the skill's cycle, and a
\* step that started a cycle leaves the flag false unless the same
\* complete_mission went on to hit the new target
C24_ClearedOnlyByStartCycle ==
    \A s \in DOMAIN skills' :
        /\ (s \in DOMAIN skills /\ skills[s].has_hit_target_this_cycle
               /\ ~skills'[s].has_hit_target_this_cycle) => StartedCycle(s)
        /\ (StartedCycle(s) /\ skills'[s].has_hit_target_this_cycle)
              => /\ last'.op = "complete_mission"
                 /\ s \in Range(last'.bonused)
                 /\ skills'[s].target_mission_id = last'.mission_id

(***************************************************************************)
(* C24. has_hit_target_this_cycle changes from true to false only in       *)
(* start_new_cycle, and every start_new_cycle leaves it false; no other    *)
(* operation clears it, and mark_target_hit applied twice gives the same   *)
(* state as applied once.                                                  *)
(***************************************************************************)
C24_HitFlagResetOnlyAtCycleStart ==
    /\ [](\A s \in DOMAIN skills :
             /\ mark_target_hit(mark_target_hit(skills[s])) = mark_target_hit(skills[s])
             /\ mark_target_hit(skills[s]).has_hit_target_this_cycle)
    /\ [][C24_ClearedOnlyByStartCycle]_vars

\* a complete_mission has rolled the cycle of a skill whose target had been hit
\* and left the flag false, and the other operations have been used
C24_Witness ==
    /\ Completed
    /\ adjustments > 0
    /\ \E s \in last.rolled :
          /\ last.skills_before[s].has_hit_target_this_cycle
          /\ ~skills[s].has_hit_target_this_cycle

\* the operations that recompute missions_count for the skills of one mission
CountingCalls == {"create_mission", "archive_mission", "reassign_mission_skills"}

(***************************************************************************)
(* C25. After create_mission, archive_mission and reassign_mission_skills  *)
(* (including a reassignment that keeps a skill the mission already had,   *)
(* or that acts on an archived mission), the missions_count of each skill  *)
(* of the mission equals the number of non-archived missions whose skill   *)
(* list contains that skill.                                               *)
(***************************************************************************)
C25_MissionsCountExact ==
    (last.op \in CountingCalls /\ "raised" \notin DOMAIN last) =>
        \A s \in Range(missions[last.mission_id].skill_ids) \cap DOMAIN skills :
            skills[s].missions_count = Cardinality(get_missions_for_skill(missions, s))

(***************************************************************************)
(* C26. Once a skill is archived the cycle engine is no longer applied to  *)
(* it: a complete_mission call, including one for a mission attached to    *)
(* the skill, leaves the archived skill's cycle_start, cycle_end,          *)
(* target_mission_id and has_hit_target_this_cycle unchanged.              *)
(***************************************************************************)
C26_ArchivedSkillCycleFrozen ==
    Completed =>
        \A s \in DOMAIN last.skills_before :
            last.skills_before[s].is_archived =>
                /\ skills[s].cycle_start = last.skills_before[s].cycle_start
                /\ skills[s].cycle_end = last.skills_before[s].cycle_end
                /\ skills[s].target_mission_id = last.skills_before[s].target_mission_id
                /\ skills[s].has_hit_target_this_cycle
                      = last.skills_before[s].has_hit_target_this_cycle

(***************************************************************************)
(* C27. Successive cycles of a skill produced by rolling never overlap and *)
(* never repeat: whenever the cycle is restarted because now >= cycle_end  *)
(* (cadence and day_starts_at unchanged), the new cycle_start is >= the    *)
(* previous cycle_end, hence the new cycle id differs from every earlier   *)
(* cycle id of that skill.                                                 *)
(***************************************************************************)
C27_CyclesNeverOverlap ==
    probe.fn = "roll" =>
        \A j \in 2..Len(probe.cycles) :
            /\ probe.cycles[j].cycle_start >= probe.cycles[j - 1].cycle_end
            /\ \A i \in 1..(j - 1) :
                  create_cycle_id("S1", probe.cycles[j].cycle_start)
                     # create_cycle_id("S1", probe.cycles[i].cycle_start)

\* a skill whose day starts after midnight has been rolled twice
C27_Witness ==
    /\ probe.fn = "roll"
    /\ probe.day_starts_at > 0
    /\ Len(probe.cycles) >= 3
    /\ probe.skills["S1"].cycle_type = "monthly"

\* the number of times the last complete_mission call credited base skill XP to s
CreditsInCall(s) ==
    Cardinality({i \in 1..Len(last.log) : last.log[i].skill_id = s /\ last.log[i].credited})

(***************************************************************************)
(* C28. Within a single complete_mission call each distinct skill receives *)
(* the base skill XP at most once, for every mission the store can hold,   *)
(* including a mission whose skill list names the same skill twice.        *)
(***************************************************************************)
C28_BaseXpOncePerSkill ==
    Completed =>
        \A s \in DOMAIN skills :
            /\ CreditsInCall(s) <= 1
            /\ TotalSkillXp(skills[s]) - TotalSkillXp(last.skills_before[s])
                  <= base_skill_xp(missions[last.mission_id])
                     + cycle_skill_xp(missions[last.mission_id])

\* a toggle_focus_mode step keeps the toggled skill below its requirement
ToggleKeepsLeveling ==
    last'.op = "toggle_focus_mode" =>
        LET before == skills[last'.skill_id]
            after == skills'[last'.skill_id]
        IN  /\ after.level = before.level
            /\ after.xp = before.xp
            /\ after.is_focus = ~before.is_focus
            /\ before.xp < skill_xp_for_next_level(before)
                  => after.xp < skill_xp_for_next_level(after)

(***************************************************************************)
(* C29. toggle_focus_mode preserves the leveling invariant of a skill: for *)
(* every skill with xp < xp_for_next_level() before the toggle, xp <       *)
(* xp_for_next_level() still holds after the toggle (Focus on and Focus    *)
(* off), and level and xp are unchanged.                                   *)
(***************************************************************************)
C29_TogglePreservesLeveling == [][ToggleKeepsLeveling]_vars

(***************************************************************************)
(* C30. In every reachable state a skill's non-null target_mission_id      *)
(* names a non-archived mission that is currently assigned to that skill,  *)
(* after any sequence of start_new_cycle, archive_mission and              *)
(* reassign_mission_skills.                                                *)
(***************************************************************************)
C30_TargetIsActiveMissionOfSkill ==
    \A s \in DOMAIN skills :
        skills[s].target_mission_id # NoMission =>
            /\ skills[s].target_mission_id \in DOMAIN missions
            /\ ~missions[skills[s].target_mission_id].is_archived
            /\ s \in Range(missions[skills[s].target_mission_id].skill_ids)

====
